---- MODULE Spec2Model ----
(***************************************************************************)
(* Expense tracker: the category / payment-method normalization pipeline   *)
(* (src/src/analysis/nlp.py), the store it writes to                       *)
(* (src/src/storage/database.py) and the report that reads the store       *)
(* (src/src/analysis/reporting.py).                                        *)
(*                                                                         *)
(* Python strings are TLA+ strings; a character is a one-character string. *)
(* A similarity ratio 2*M/T is kept as the pair <<2*M, T>> and compared by *)
(* cross-multiplication, which agrees with Python's float comparison for   *)
(* the lengths that occur here (every quotient of two small integers       *)
(* rounds to its own double, and 4/5 rounds to the literal 0.8).           *)
(***************************************************************************)
EXTENDS Integers, Sequences, FiniteSets, TLC

\* ------------------------------------------------------------------------
\* Python str helpers used by the matchers: lower() and strip()
\* ------------------------------------------------------------------------

UpperChars == "ABCDEFGHIJKLMNOPQRSTUVWXYZ"

LowerChars == "abcdefghijklmnopqrstuvwxyz"

\* The whitespace str.strip() removes, as far as TLA+ strings can write it.
Whitespace == {" ", "\t", "\n", "\r", "\f"}

CharAt(s, i) == SubSeq(s, i, i)

LowerChar(c) ==
    IF \E k \in 1..Len(UpperChars) : CharAt(UpperChars, k) = c
    THEN CharAt(LowerChars, CHOOSE k \in 1..Len(UpperChars) : CharAt(UpperChars, k) = c)
    ELSE c

RECURSIVE PyLower(_)
PyLower(s) ==
    IF Len(s) = 0 THEN ""
    ELSE LowerChar(CharAt(s, 1)) \o PyLower(SubSeq(s, 2, Len(s)))

PyStrip(s) ==
    LET keep == {i \in 1..Len(s) : CharAt(s, i) \notin Whitespace}
    IN  IF keep = {} THEN ""
        ELSE LET lo == CHOOSE i \in keep : \A j \in keep : i <= j
                 hi == CHOOSE i \in keep : \A j \in keep : j <= i
             IN  SubSeq(s, lo, hi)

\* ------------------------------------------------------------------------
\* difflib.SequenceMatcher(None, a, b).ratio()
\* (no junk: isjunk is None and the autojunk heuristic needs len(b) >= 200)
\* Index ranges are Python's half-open a[alo:ahi], b[blo:bhi].
\* ------------------------------------------------------------------------

RECURSIVE CommonLen(_, _, _, _, _, _)
\* Length of the common run of a[i:ahi] and b[j:bhi] starting at i and j.
CommonLen(a, b, i, ahi, j, bhi) ==
    IF i < ahi /\ j < bhi /\ CharAt(a, i + 1) = CharAt(b, j + 1)
    THEN 1 + CommonLen(a, b, i + 1, ahi, j + 1, bhi)
    ELSE 0

\* find_longest_match: the longest matching block <<i, j, k>>; of the longest
\* blocks the one starting earliest in a, and of those the earliest in b.
FindLongestMatch(a, b, alo, ahi, blo, bhi) ==
    LET blocks  == {<<i, j, CommonLen(a, b, i, ahi, j, bhi)>> :
                       i \in alo..(ahi - 1), j \in blo..(bhi - 1)}
        found   == {m \in blocks : m[3] > 0}
        longest == {m \in found : \A o \in found : o[3] <= m[3]}
        firstA  == {m \in longest : \A o \in longest : m[1] <= o[1]}
    IN  IF found = {} THEN <<alo, blo, 0>>
        ELSE CHOOSE m \in firstA : \A o \in firstA : m[2] <= o[2]

RECURSIVE MatchedChars(_, _, _, _, _, _)
\* get_matching_blocks: the sizes of the blocks found by splitting around the
\* longest match and recursing to its left and to its right, summed.
MatchedChars(a, b, alo, ahi, blo, bhi) ==
    LET m == FindLongestMatch(a, b, alo, ahi, blo, bhi)
        i == m[1]
        j == m[2]
        k == m[3]
    IN  IF k = 0 THEN 0
        ELSE k
             + (IF alo < i /\ blo < j
                THEN MatchedChars(a, b, alo, i, blo, j) ELSE 0)
             + (IF i + k < ahi /\ j + k < bhi
                THEN MatchedChars(a, b, i + k, ahi, j + k, bhi) ELSE 0)

\* ratio(): 2.0 * matches / length, and 1.0 when both strings are empty.
Ratio(a, b) ==
    LET length == Len(a) + Len(b)
    IN  IF length = 0 THEN <<1, 1>>
        ELSE <<2 * MatchedChars(a, b, 0, Len(a), 0, Len(b)), length>>

\* score > best_score on two ratios
RatioGreater(r, s) == r[1] * s[2] > s[1] * r[2]

\* ------------------------------------------------------------------------
\* The example sets, in the dicts' definition order (the order .items() keeps)
\* ------------------------------------------------------------------------

\* Mutant of CATEGORY_EXAMPLES: "food" missing from the examples of "Food".
CATEGORY_EXAMPLES_WithoutFood ==
    << <<"Food", <<"drink", "lunch", "dinner", "groceries">> >>,
       <<"Transport", <<"bus", "train", "taxi", "subway">> >>,
       <<"Entertainment", <<"movie", "game">> >>,
       <<"Utilities", <<"mobile", "internet">> >>,
       <<"Miscellaneous", <<"other">> >> >>

CATEGORY_EXAMPLES ==
    << <<"Food", <<"drink", "lunch", "dinner", "groceries", "food">> >>,
       <<"Transport", <<"bus", "train", "taxi", "subway">> >>,
       <<"Entertainment", <<"movie", "game">> >>,
       <<"Utilities", <<"mobile", "internet">> >>,
       <<"Miscellaneous", <<"other">> >> >>

PAYMENT_EXAMPLES ==
    << <<"TD Debit", <<"debit", "td debit">> >>,
       <<"Cash", <<"cash">> >>,
       <<"Credit Card", <<"credit", "visa", "mastercard">> >> >>

\* The keys of an example set.
Keys(examples) == {examples[g][1] : g \in 1..Len(examples)}

RECURSIVE PairsFrom(_, _, _)
\* The (general, example) pairs in the order the two nested loops visit them.
PairsFrom(examples, g, e) ==
    IF g > Len(examples) THEN <<>>
    ELSE IF e > Len(examples[g][2]) THEN PairsFrom(examples, g + 1, 1)
    ELSE <<[general |-> examples[g][1], example |-> examples[g][2][e]]>>
         \o PairsFrom(examples, g, e + 1)

Pairs(examples) == PairsFrom(examples, 1, 1)

\* ------------------------------------------------------------------------
\* get_general_category_from_similarity / get_general_payment_method
\* ------------------------------------------------------------------------

\* Mutant of NormalizeInput: strip() without lower().
NormalizeStripOnly(x) == PyStrip(x)

\* x.lower().strip(): the first statement of both matchers
NormalizeInput(x) == PyStrip(PyLower(x))

\* Mutant of Improves: score >= best_score, so that the last of tied pairs wins.
ImprovesOrTies(score, best_score) == ~RatioGreater(best_score, score)

\* `if score > best_score`: a later pair replaces the best only when strictly higher
Improves(score, best_score) == RatioGreater(score, best_score)

RECURSIVE ScanPairsKeepsExample(_, _, _, _)
\* Mutant of ScanPairs: best_category = example instead of general.
ScanPairsKeepsExample(x, pairs, n, best) ==
    IF n > Len(pairs) THEN best
    ELSE LET score == Ratio(x, pairs[n].example)
         IN  ScanPairsKeepsExample(x, pairs, n + 1,
                       IF Improves(score, best.score)
                       THEN [score |-> score, label |-> pairs[n].example]
                       ELSE best)

RECURSIVE ScanPairs(_, _, _, _)
\* The loop: best is [score, label] so far, pairs[n..] are still to compare.
ScanPairs(x, pairs, n, best) ==
    IF n > Len(pairs) THEN best
    ELSE LET score == Ratio(x, pairs[n].example)
         IN  ScanPairs(x, pairs, n + 1,
                       IF Improves(score, best.score)
                       THEN [score |-> score, label |-> pairs[n].general]
                       ELSE best)

\* The literal 0.8 of the return statements, as the fraction 4/5.
Threshold == <<4, 5>>

\* Mutant of AboveThreshold: best_score >= 0.8.
AtOrAboveThreshold(score) == ~RatioGreater(Threshold, score)

\* `best_score > 0.8`
AboveThreshold(score) == RatioGreater(score, Threshold)

\* The body shared by the two matchers: best_score = 0, best = "Miscellaneous",
\* the loop, and the thresholded return.  The locals at the return statement
\* are kept beside the value returned.
SimilarityMatch(raw, examples) ==
    LET x    == NormalizeInput(raw)
        best == ScanPairs(x, Pairs(examples), 1,
                          [score |-> <<0, 1>>, label |-> "Miscellaneous"])
    IN  [best_score |-> best.score,
         best_label |-> best.label,
         returned   |-> IF AboveThreshold(best.score) THEN best.label
                        ELSE "Miscellaneous"]


\* ------------------------------------------------------------------------
\* The inputs the specifications draw from
\* ------------------------------------------------------------------------

\* Records the store may hold before add_expense_db stops being offered: with
\* the classifiers, and in the specification of the store and the report.
MaxStore == 3

MaxRows == 2

\* Characters removed from an example to make a near miss.
MaxDel == 2

\* Blanks put before and after a label.
MaxPad == 1

\* What add_expense_db is called with.  The date is the one of the tests.
Dates == {"2025-05-23"}

\* The store on its own (add_expense_db as the form and the tests call it,
\* and the report): the rows of the tests, an unmatched label and "other".
StoreAmounts == {20, 25}

StoreCategories == {"lunch", "dinner", "Food", "other", "xyz123"}

StorePayments == {"td debit", "TD debit", " Card "}

StoreDescriptions == {"Lunch at cafe"}

\* The trainers: descriptions with tokens, with stop words only, and empty.
TrainCategories == {"lunch", "xyz123"}

TrainPayments == {"td debit", "Card"}

TrainDescriptions == {"Lunch at cafe", "the", ""}

\* The pipeline with a classifier, as (category, payment_method): matched
\* labels, a category matching the example of "Miscellaneous", and unmatched
\* labels.
PipelineLabels == {<<"lunch", "td debit">>, <<"other", "Card">>, <<"xyz123", "Card">>}

PipelineCategories == {labels[1] : labels \in PipelineLabels}

PipelinePayments == {labels[2] : labels \in PipelineLabels}

PipelineDescriptions == {"Lunch at cafe"}

\* Descriptions handed to the pipeline when it is called directly.
RefineDescriptions == {"Breakfast sandwich", ""}

\* Raw labels handed to the pipeline when it is called directly: the empty
\* label too.
RefineCategories == PipelineCategories \cup {""}

RefinePayments == PipelinePayments \cup {""}

Descriptions ==
    StoreDescriptions \cup TrainDescriptions \cup PipelineDescriptions
    \cup RefineDescriptions

AllExamples(examples) ==
    {Pairs(examples)[k].example : k \in 1..Len(Pairs(examples))}

ExampleWords == AllExamples(CATEGORY_EXAMPLES) \cup AllExamples(PAYMENT_EXAMPLES)

CanonicalLabels == Keys(CATEGORY_EXAMPLES) \cup Keys(PAYMENT_EXAMPLES)

\* Labels named by the docstrings, the tests and the scenarios of the design.
NamedLabels ==
    {"", "coffe", "coffee", "xyz123", "random", "breakfast", "Card", "bu",
     "Td debit", "TD debit", "Coffee", "debit card"}

\* Labels whose highest ratio is reached by pairs of two different labels:
\* "tdraink" scores 10/12 against "drink" and against "train", "vas" scores
\* 4/7 against "cash" and against "visa".
TiedLabels == {"tdraink", "dtraink", "vas"}

DeleteOne(w) == {SubSeq(w, 1, k - 1) \o SubSeq(w, k + 1, Len(w)) : k \in 1..Len(w)}

RECURSIVE DeleteUpTo(_, _)
DeleteUpTo(words, d) ==
    IF d = 0 THEN words
    ELSE words \cup DeleteUpTo(UNION {DeleteOne(w) : w \in words}, d - 1)

UpperChar(c) ==
    IF \E k \in 1..Len(LowerChars) : CharAt(LowerChars, k) = c
    THEN CharAt(UpperChars, CHOOSE k \in 1..Len(LowerChars) : CharAt(LowerChars, k) = c)
    ELSE c

RECURSIVE PyUpper(_)
PyUpper(w) ==
    IF Len(w) = 0 THEN ""
    ELSE UpperChar(CharAt(w, 1)) \o PyUpper(SubSeq(w, 2, Len(w)))

Capitalized(w) ==
    IF Len(w) = 0 THEN "" ELSE UpperChar(CharAt(w, 1)) \o SubSeq(w, 2, Len(w))

RECURSIVE Blanks(_)
Blanks(k) == IF k = 0 THEN "" ELSE " " \o Blanks(k - 1)

CaseAndPad(words) ==
    LET cased == words \cup {PyUpper(w) : w \in words} \cup {Capitalized(w) : w \in words}
    IN  {Blanks(p[1]) \o w \o Blanks(p[2]) : w \in cased, p \in (0..MaxPad) \X (0..MaxPad)}
        \cup {"\t" \o w \o "\n" : w \in words}

\* The raw labels the matchers are applied to: the examples with up to MaxDel
\* characters deleted, and the examples, the canonical labels and the named
\* labels in other cases and with surrounding white space.
RawInputs ==
    DeleteUpTo(ExampleWords, MaxDel)
    \cup CaseAndPad(ExampleWords \cup CanonicalLabels \cup NamedLabels)
    \cup TiedLabels

\* Every raw label a matcher is called with, directly or by add_expense_db
\* and the pipeline.
LabelInputs ==
    RawInputs \cup StoreCategories \cup StorePayments \cup TrainCategories
    \cup TrainPayments \cup RefineCategories \cup RefinePayments

\* The matchers, evaluated once for every label of LabelInputs; the locals
\* the matchers ended with are kept beside the value returned.
CategoryTable == [w \in LabelInputs |-> SimilarityMatch(w, CATEGORY_EXAMPLES)]

PaymentTable == [w \in LabelInputs |-> SimilarityMatch(w, PAYMENT_EXAMPLES)]

get_general_category_from_similarity(category) == CategoryTable[category].returned

get_general_payment_method(payment_method) == PaymentTable[payment_method].returned

\* ------------------------------------------------------------------------
\* The fallback classifier: TfidfVectorizer(stop_words="english") + MultinomialNB
\* ------------------------------------------------------------------------

\* Python's None, and the two kinds of fitted object
None == [py |-> "None"]

MultinomialNB(classes) == [py |-> "MultinomialNB", classes |-> classes]

TfidfVectorizer(vocabulary) == [py |-> "TfidfVectorizer", vocabulary |-> vocabulary]

WordChars == "abcdefghijklmnopqrstuvwxyz0123456789_"

IsWordChar(c) == \E k \in 1..Len(WordChars) : CharAt(WordChars, k) = c

\* The "english" stop words that occur in the descriptions used here (the
\* vectorizer's list has 318 entries, these among them).
StopWords ==
    {"the", "at", "with", "and", "of", "for", "in", "on", "to", "is", "it",
     "an", "by", "from", "or", "as", "be", "this", "that", "was", "are"}

\* The vectorizer's analyzer: lowercase, take the runs of two or more word
\* characters (token_pattern \b\w\w+\b), drop the stop words.
Tokens(description) ==
    LET s      == PyLower(description)
        word(i) == i \in 1..Len(s) /\ IsWordChar(CharAt(s, i))
        runs   == {r \in (1..Len(s)) \X (1..Len(s)) :
                      /\ r[1] < r[2]
                      /\ \A i \in r[1]..r[2] : word(i)
                      /\ ~word(r[1] - 1)
                      /\ ~word(r[2] + 1)}
    IN  {SubSeq(s, r[1], r[2]) : r \in runs} \ StopWords

\* The descriptions / labels columns of the frame the trainers read.
Column(records, field) == {records[i][field] : i \in 1..Len(records)}

\* The analyzer, evaluated once for every description the specifications draw.
TokenTable == [d \in Descriptions |-> Tokens(d)]

\* The vocabulary fit_transform learns from the descriptions column.
Vocabulary(records) == UNION {TokenTable[records[i].description] : i \in 1..Len(records)}

\* len(data) < 2
InsufficientData(records) == Len(records) < 2

\* train_category_classifier ("category") / train_payment_classifier
\* ("payment_method") on the records of the store.  fit_transform raises
\* ValueError (empty vocabulary) when no description holds a token; fit keeps the
\* labels seen as the model's classes.
TrainClassifier(records, field) ==
    IF InsufficientData(records)
    THEN [raised |-> FALSE, model |-> None, vectorizer |-> None]
    ELSE IF Vocabulary(records) = {}
    THEN [raised |-> TRUE, model |-> None, vectorizer |-> None]
    ELSE [raised |-> FALSE,
          model |-> MultinomialNB(Column(records, field)),
          vectorizer |-> TfidfVectorizer(Vocabulary(records))]

\* What model.predict(vectorizer.transform([description]))[0] can be: the
\* most probable of the classes the model was fitted on.  Which one is the
\* library's arithmetic, left open here; a single class leaves no choice.
Predictions(model, vectorizer, description) == model.classes

\* Mutant of ClassifierSupplied: the vectorizer is not tested.
ModelSupplied(model, vectorizer) == model # None

\* `model is not None and vectorizer is not None`
ClassifierSupplied(model, vectorizer) == model # None /\ vectorizer # None

\* The outcomes the predict call of one pipeline run may have (None: not run).
PredictOutcomes(model, vectorizer, description) ==
    IF ClassifierSupplied(model, vectorizer)
    THEN Predictions(model, vectorizer, description)
    ELSE {None}

\* ------------------------------------------------------------------------
\* predict_and_refine_category / predict_and_refine_payment
\* `general` is the matcher's answer, `predicted` the outcome of the predict
\* call should it run.  consulted: whether transform/predict ran.
\* ------------------------------------------------------------------------

\* `if general_category != "Miscellaneous": return general_category`
SimilarityFinal(general) == general # "Miscellaneous"

PredictAndRefine(general, model, vectorizer, predicted) ==
    IF SimilarityFinal(general)
    THEN [result |-> general, consulted |-> FALSE]
    ELSE IF ClassifierSupplied(model, vectorizer)
    THEN [result |-> predicted, consulted |-> TRUE]
    ELSE [result |-> "Miscellaneous", consulted |-> FALSE]

predict_and_refine_category(description, user_category, model, vectorizer, predicted) ==
    PredictAndRefine(get_general_category_from_similarity(user_category),
                     model, vectorizer, predicted)

predict_and_refine_payment(description, user_payment, model, vectorizer, predicted) ==
    PredictAndRefine(get_general_payment_method(user_payment),
                     model, vectorizer, predicted)

\* ------------------------------------------------------------------------
\* add_expense_db
\* ------------------------------------------------------------------------

\* `category_model and category_vectorizer`: None is falsy, the fitted objects
\* are truthy (neither defines __bool__ or __len__).
Truthy(obj) == obj # None

\* Lines 50-56 for one of the two labels: the matcher first, and the pipeline
\* only if the matcher said "Miscellaneous" and both objects were passed.
RefineForStore(general, model, vectorizer, predicted) ==
    IF general = "Miscellaneous" /\ Truthy(model) /\ Truthy(vectorizer)
    THEN PredictAndRefine(general, model, vectorizer, predicted)
    ELSE [result |-> general, consulted |-> FALSE]

\* Mutant of ExpenseDocument: the originals are stored lowercased and stripped.
ExpenseDocumentNormalized(date, amount, category, description, payment_method, refined_category, refined_payment) ==
    [date |-> date,
     amount |-> amount,
     category |-> refined_category,
     original_category |-> NormalizeInput(category),
     description |-> description,
     payment_method |-> refined_payment,
     original_payment_method |-> NormalizeInput(payment_method)]

\* Mutant of ExpenseDocument: the raw labels are stored as category and
\* payment_method.
ExpenseDocumentUnrefined(date, amount, category, description, payment_method, refined_category, refined_payment) ==
    [date |-> date,
     amount |-> amount,
     category |-> category,
     original_category |-> category,
     description |-> description,
     payment_method |-> payment_method,
     original_payment_method |-> payment_method]

\* The document of lines 57-65.
ExpenseDocument(date, amount, category, description, payment_method, refined_category, refined_payment) ==
    [date |-> date,
     amount |-> amount,
     category |-> refined_category,
     original_category |-> category,
     description |-> description,
     payment_method |-> refined_payment,
     original_payment_method |-> payment_method]

\* ------------------------------------------------------------------------
\* generate_report
\* ------------------------------------------------------------------------

RECURSIVE SumAmounts(_, _)
\* df["amount"].sum() over the first k records
SumAmounts(records, k) ==
    IF k = 0 THEN 0 ELSE SumAmounts(records, k - 1) + records[k].amount

SelectWhere(records, field, value) == SelectSeq(records, LAMBDA e : e[field] = value)

\* Mutant of GroupSums: grouped by the raw label instead of the canonical one.
GroupSumsByOriginal(records, field) ==
    [v \in Column(records, "original_" \o field) |->
        LET rows == SelectWhere(records, "original_" \o field, v)
        IN  SumAmounts(rows, Len(rows))]

\* df.groupby(field)["amount"].sum(): one entry per value present
GroupSums(records, field) ==
    [v \in Column(records, field) |->
        LET rows == SelectWhere(records, field, v) IN SumAmounts(rows, Len(rows))]

\* An empty collection makes an empty frame without an "amount" column, and
\* df["amount"] raises KeyError.
GenerateReport(records) ==
    IF Len(records) = 0
    THEN [raised |-> TRUE]
    ELSE [raised |-> FALSE,
          total_expenses |-> SumAmounts(records, Len(records)),
          category_summary |-> GroupSums(records, "category"),
          payment_summary |-> GroupSums(records, "payment_method")]

\* ------------------------------------------------------------------------
\* State
\* ------------------------------------------------------------------------

VARIABLES
    store,    \* the "expenses" collection, in insertion order
    calls,    \* calls[i]: the arguments of the add_expense_db call that inserted store[i]
    catClf,   \* the caller's (model, vectorizer) from train_category_classifier
    payClf,   \* the caller's (model, vectorizer) from train_payment_classifier
    last      \* the last call made and what it returned

vars == <<store, calls, catClf, payClf, last>>

Untrained == [model |-> None, vectorizer |-> None]

Init ==
    /\ store = <<>>
    /\ calls = <<>>
    /\ catClf = Untrained
    /\ payClf = Untrained
    /\ last = [op |-> "start"]

\* Mutant of AddExpense: the record replaces a stored record of the same date
\* (an upsert keyed on the date) instead of being inserted.
AddExpenseUpsert(date, amount, category, description, payment_method, cm, cv, pm, pv) ==
    LET document == ExpenseDocument(date, amount, category, description, payment_method,
                                    get_general_category_from_similarity(category),
                                    get_general_payment_method(payment_method))
        same == {k \in 1..Len(store) : store[k].date = date}
    IN  /\ store' = IF same = {} THEN Append(store, document)
                    ELSE [store EXCEPT ![CHOOSE k \in same : TRUE] = document]
        /\ calls' = Append(calls, [category |-> category, payment_method |-> payment_method])
        /\ last' = [op |-> "add_expense_db",
                    category_consulted |-> FALSE, payment_consulted |-> FALSE]
        /\ UNCHANGED <<catClf, payClf>>

\* add_expense_db(date, amount, category, description, payment_method,
\*                category_model, category_vectorizer, payment_model, payment_vectorizer)
AddExpense(date, amount, category, description, payment_method, cm, cv, pm, pv) ==
    /\ \E cpred \in PredictOutcomes(cm, cv, description),
          ppred \in PredictOutcomes(pm, pv, description) :
          LET c == RefineForStore(get_general_category_from_similarity(category), cm, cv, cpred)
              q == RefineForStore(get_general_payment_method(payment_method), pm, pv, ppred)
          IN  /\ store' = Append(store,
                    ExpenseDocument(date, amount, category, description, payment_method,
                                    c.result, q.result))
              /\ calls' = Append(calls,
                    [category |-> category, payment_method |-> payment_method])
              /\ last' = [op |-> "add_expense_db",
                          category_consulted |-> c.consulted,
                          payment_consulted |-> q.consulted]
    /\ UNCHANGED <<catClf, payClf>>

\* model, vectorizer = train_category_classifier()
TrainCategory ==
    LET res == TrainClassifier(store, "category")
    IN  /\ last' = [op |-> "train_category_classifier", size |-> Len(store), returned |-> res]
        /\ catClf' = IF res.raised THEN catClf
                     ELSE [model |-> res.model, vectorizer |-> res.vectorizer]
        /\ UNCHANGED <<store, calls, payClf>>

\* model, vectorizer = train_payment_classifier()
TrainPayment ==
    LET res == TrainClassifier(store, "payment_method")
    IN  /\ last' = [op |-> "train_payment_classifier", size |-> Len(store), returned |-> res]
        /\ payClf' = IF res.raised THEN payClf
                     ELSE [model |-> res.model, vectorizer |-> res.vectorizer]
        /\ UNCHANGED <<store, calls, catClf>>

\* predict_and_refine_category(description, user_category, model, vectorizer)
RefineCategory(description, user_category, model, vectorizer) ==
    /\ \E predicted \in PredictOutcomes(model, vectorizer, description) :
          LET res == predict_and_refine_category(description, user_category,
                                                 model, vectorizer, predicted)
          IN  last' = [op |-> "predict_and_refine_category", raw |-> user_category,
                       model |-> model, vectorizer |-> vectorizer,
                       predicted |-> predicted,
                       result |-> res.result, consulted |-> res.consulted]
    /\ UNCHANGED <<store, calls, catClf, payClf>>

\* predict_and_refine_payment(description, user_payment, model, vectorizer)
RefinePayment(description, user_payment, model, vectorizer) ==
    /\ \E predicted \in PredictOutcomes(model, vectorizer, description) :
          LET res == predict_and_refine_payment(description, user_payment,
                                                model, vectorizer, predicted)
          IN  last' = [op |-> "predict_and_refine_payment", raw |-> user_payment,
                       model |-> model, vectorizer |-> vectorizer,
                       predicted |-> predicted,
                       result |-> res.result, consulted |-> res.consulted]
    /\ UNCHANGED <<store, calls, catClf, payClf>>

\* generate_report()
Report ==
    /\ last' = [op |-> "generate_report", returned |-> GenerateReport(store)]
    /\ UNCHANGED <<store, calls, catClf, payClf>>

\* A caller passes nothing (the default None) or what a trainer returned.
Passed(obj) == {None, obj}

\* The pipeline with its classifier: records are added with or without the
\* trained objects, the trainers run on the store, the pipeline is called.
Next ==
    \/ /\ Len(store) < MaxStore
       /\ \E date \in Dates, amount \in {20}, labels \in PipelineLabels,
             description \in PipelineDescriptions,
             cm \in Passed(catClf.model), cv \in Passed(catClf.vectorizer),
             pm \in Passed(payClf.model), pv \in Passed(payClf.vectorizer) :
             AddExpense(date, amount, labels[1], description, labels[2], cm, cv, pm, pv)
    \/ TrainCategory
    \/ TrainPayment
    \/ \E description \in RefineDescriptions, user_category \in RefineCategories,
          model \in Passed(catClf.model), vectorizer \in Passed(catClf.vectorizer) :
          RefineCategory(description, user_category, model, vectorizer)
    \/ \E description \in RefineDescriptions, user_payment \in RefinePayments,
          model \in Passed(payClf.model), vectorizer \in Passed(payClf.vectorizer) :
          RefinePayment(description, user_payment, model, vectorizer)

Spec == Init /\ [][Next]_vars

\* ------------------------------------------------------------------------
\* The trainers on stores of every size
\* ------------------------------------------------------------------------

NextTrain ==
    \/ /\ Len(store) < MaxStore
       /\ \E date \in Dates, amount \in {20}, category \in TrainCategories,
             description \in TrainDescriptions, payment_method \in TrainPayments :
             AddExpense(date, amount, category, description, payment_method,
                        None, None, None, None)
    \/ TrainCategory
    \/ TrainPayment

SpecTrain == Init /\ [][NextTrain]_vars

\* ------------------------------------------------------------------------
\* The store and the report: add_expense_db called without the optional
\* arguments, as gui.py and test_database.py call it
\* ------------------------------------------------------------------------

NextStore ==
    \/ /\ Len(store) < MaxRows
       /\ \E date \in Dates, amount \in StoreAmounts, category \in StoreCategories,
             description \in StoreDescriptions, payment_method \in StorePayments :
             AddExpense(date, amount, category, description, payment_method,
                        None, None, None, None)
    \/ Report

SpecStore == Init /\ [][NextStore]_vars

\* ------------------------------------------------------------------------
\* The matchers on their own: a raw label is drawn, then a matcher is applied
\* ------------------------------------------------------------------------

InitMatch ==
    /\ store = <<>>
    /\ calls = <<>>
    /\ catClf = Untrained
    /\ payClf = Untrained
    /\ \E raw \in RawInputs : last = [op |-> "input", raw |-> raw]

MatchCategory ==
    /\ last.op = "input"
    /\ last' = [op |-> "get_general_category_from_similarity", raw |-> last.raw,
                best_score |-> CategoryTable[last.raw].best_score,
                best_label |-> CategoryTable[last.raw].best_label,
                result |-> get_general_category_from_similarity(last.raw)]
    /\ UNCHANGED <<store, calls, catClf, payClf>>

MatchPayment ==
    /\ last.op = "input"
    /\ last' = [op |-> "get_general_payment_method", raw |-> last.raw,
                best_score |-> PaymentTable[last.raw].best_score,
                best_label |-> PaymentTable[last.raw].best_label,
                result |-> get_general_payment_method(last.raw)]
    /\ UNCHANGED <<store, calls, catClf, payClf>>

NextMatch == MatchCategory \/ MatchPayment

SpecMatch == InitMatch /\ [][NextMatch]_vars

\* ------------------------------------------------------------------------
\* Properties
\* ------------------------------------------------------------------------

CategoryLabels == Keys(CATEGORY_EXAMPLES) \cup {"Miscellaneous"}

PaymentLabels == Keys(PAYMENT_EXAMPLES) \cup {"Miscellaneous"}

\* best_score > 0.8, on the locals a matcher ended with
ScoreAboveFourFifths(m) == 5 * m.best_score[1] > 4 * m.best_score[2]

\* C1: predict_and_refine_category / predict_and_refine_payment return a
\* non-empty label that is a key of their example set or "Miscellaneous", with
\* or without a classifier trained on the store, and so every category and
\* payment_method add_expense_db has stored is such a label.
C1_LabelsAreCanonical ==
    /\ last.op = "predict_and_refine_category"
          => last.result # "" /\ last.result \in CategoryLabels
    /\ last.op = "predict_and_refine_payment"
          => last.result # "" /\ last.result \in PaymentLabels
    /\ \A i \in 1..Len(store) :
          /\ store[i].category # "" /\ store[i].category \in CategoryLabels
          /\ store[i].payment_method # "" /\ store[i].payment_method \in PaymentLabels

\* C1 witness: the classifier labelled a stored record whose raw category has
\* no match, and the pipeline called directly answered from the classifier.
C1_Witness ==
    /\ last.op = "predict_and_refine_category"
    /\ last.raw = "xyz123" /\ last.consulted /\ last.result = "Food"
    /\ \E i \in 1..Len(store) :
          store[i].original_category = "xyz123" /\ store[i].category = "Food"

\* C2: every stored record carries original_category and
\* original_payment_method equal, character for character, to the raw
\* arguments of the call that inserted it, beside the canonical labels; raw
\* "lunch" / "td debit" is stored as "Food" / "TD Debit".
C2_OriginalsPreserved ==
    /\ Len(calls) = Len(store)
    /\ \A i \in 1..Len(store) :
          /\ store[i].original_category = calls[i].category
          /\ store[i].original_payment_method = calls[i].payment_method
          /\ store[i].category \in CategoryLabels
          /\ store[i].payment_method \in PaymentLabels
          /\ calls[i].category = "lunch" => store[i].category = "Food"
          /\ calls[i].payment_method = "td debit" => store[i].payment_method = "TD Debit"

\* C2 witness: a record whose raw labels differ from the canonical ones in
\* case and in surrounding blanks, and the record of the example.
C2_Witness ==
    /\ \E i \in 1..Len(store) :
          /\ store[i].original_category = "lunch" /\ store[i].category = "Food"
          /\ store[i].original_payment_method = "td debit"
          /\ store[i].payment_method = "TD Debit"
    /\ \E i \in 1..Len(store) :
          /\ store[i].original_category = "Food"
          /\ store[i].original_payment_method = " Card "
          /\ store[i].payment_method = "Miscellaneous"

\* C3 (as claimed): whenever the matcher's best score is above 0.8 the
\* pipeline's label is the best pair's canonical label and the classifier is not
\* consulted, for every canonical label, the pair ("Miscellaneous", "other")
\* included, with or without a trained classifier.
C3_MatchIsFinal ==
    /\ last.op = "predict_and_refine_category"
          => LET m == CategoryTable[last.raw]
             IN  ScoreAboveFourFifths(m)
                    => last.result = m.best_label /\ ~last.consulted
    /\ last.op = "predict_and_refine_payment"
          => LET m == PaymentTable[last.raw]
             IN  ScoreAboveFourFifths(m)
                    => last.result = m.best_label /\ ~last.consulted
    /\ last.op = "add_expense_db"
          => LET c == CategoryTable[calls[Len(calls)].category]
                 q == PaymentTable[calls[Len(calls)].payment_method]
             IN  /\ ScoreAboveFourFifths(c)
                    => /\ store[Len(store)].category = c.best_label
                       /\ ~last.category_consulted
                 /\ ScoreAboveFourFifths(q)
                    => /\ store[Len(store)].payment_method = q.best_label
                       /\ ~last.payment_consulted

\* C4: when the matcher finds no match (best score not above 0.8), the
\* pipeline returns exactly the classifier's prediction if a model and a
\* vectorizer are both supplied, and exactly "Miscellaneous" otherwise.
C4_FallbackOrDefault ==
    LET both == last.model # None /\ last.vectorizer # None
        rule == IF both
                THEN last.consulted /\ last.result = last.predicted
                ELSE ~last.consulted /\ last.result = "Miscellaneous"
    IN  /\ last.op = "predict_and_refine_category"
              => (~ScoreAboveFourFifths(CategoryTable[last.raw]) => rule)
        /\ last.op = "predict_and_refine_payment"
              => (~ScoreAboveFourFifths(PaymentTable[last.raw]) => rule)

\* C4 witness: an unmatched raw label, both objects supplied, and the
\* classifier's "Food" returned.
C4_Witness ==
    /\ last.op = "predict_and_refine_category"
    /\ last.raw = "xyz123"
    /\ last.model # None /\ last.vectorizer # None
    /\ last.predicted = "Food" /\ last.result = "Food"

\* The (label, ratio) of every pair compared with the normalized raw label.
RatiosOf(raw, examples) ==
    LET x == PyStrip(PyLower(raw))
    IN  {[label |-> Pairs(examples)[k].general,
          ratio |-> Ratio(x, Pairs(examples)[k].example)] :
            k \in 1..Len(Pairs(examples))}

\* The threshold rule on the ratios 2*M/T themselves: nothing is returned
\* but "Miscellaneous" unless some ratio exceeds 4/5, and then the label of a
\* pair with the highest ratio is.
StrictRule(raw, examples, result) ==
    LET all   == RatiosOf(raw, examples)
        above == {p \in all : 5 * p.ratio[1] > 4 * p.ratio[2]}
        top   == {p \in all : \A o \in all :
                                o.ratio[1] * p.ratio[2] <= p.ratio[1] * o.ratio[2]}
    IN  IF above = {} THEN result = "Miscellaneous"
        ELSE result \in {p.label : p \in top}

\* C5: the threshold is strict: a raw label whose best ratio 2*M/T over all
\* examples is exactly 0.8 (or less) gets "Miscellaneous", one whose best ratio
\* is greater than 0.8 gets the canonical label of a best pair.
C5_StrictThreshold ==
    /\ last.op = "get_general_category_from_similarity"
          => StrictRule(last.raw, CATEGORY_EXAMPLES, last.result)
    /\ last.op = "get_general_payment_method"
          => StrictRule(last.raw, PAYMENT_EXAMPLES, last.result)

\* C5 witness: "bu" against "bus" scores exactly 4/5 and is not matched.
C5_Witness ==
    /\ last.op = "get_general_category_from_similarity"
    /\ last.raw = "bu"
    /\ last.best_score = <<4, 5>> /\ last.best_label = "Transport"
    /\ last.result = "Miscellaneous"

\* C6 (as claimed): the trainers never raise; they return (None, None) when
\* the store holds fewer than 2 records and a (model, vectorizer) pair fitted
\* on the stored canonical labels when it holds 2 or more.
C6_TrainTotal ==
    LET res   == last.returned
        field == IF last.op = "train_category_classifier"
                 THEN "category" ELSE "payment_method"
    IN  last.op \in {"train_category_classifier", "train_payment_classifier"}
           => /\ ~res.raised
              /\ last.size < 2 => res.model = None /\ res.vectorizer = None
              /\ last.size >= 2
                    => /\ res.model # None /\ res.vectorizer # None
                       /\ res.model.classes = Column(store, field)

\* C7 (as claimed): the category matcher maps "coffe" to "Food", as it maps
\* "lunch" to "Food", and finds no match for "xyz123".
C7_DocstringExamples ==
    last.op = "get_general_category_from_similarity"
       => /\ last.raw = "coffe" => last.result = "Food"
          /\ last.raw = "lunch" => last.result = "Food"
          /\ last.raw = "xyz123" => last.result = "Miscellaneous"

\* C8 (as claimed): a canonical label fed back as raw input returns itself,
\* for every key of CATEGORY_EXAMPLES and of PAYMENT_EXAMPLES.
C8_EveryLabelIsFixed ==
    /\ (last.op = "get_general_category_from_similarity"
        /\ last.raw \in Keys(CATEGORY_EXAMPLES)) => last.result = last.raw
    /\ (last.op = "get_general_payment_method"
        /\ last.raw \in Keys(PAYMENT_EXAMPLES)) => last.result = last.raw

\* C8 (amended): a canonical label fed back as raw input returns itself
\* exactly when its lowercased form scores above 0.8 against an example, which
\* holds for "Food", "TD Debit" and "Cash"; "Miscellaneous" returns itself as
\* the answer for no match; "Transport", "Entertainment", "Utilities" and
\* "Credit Card" return "Miscellaneous".
C8_LabelsFixedWhenAnExample ==
    /\ last.op = "get_general_category_from_similarity"
          => /\ last.raw \in {"Food", "Miscellaneous"} => last.result = last.raw
             /\ last.raw \in {"Transport", "Entertainment", "Utilities"}
                   => last.result = "Miscellaneous"
             /\ last.raw \in Keys(CATEGORY_EXAMPLES)
                   => (last.result = last.raw
                          <=> \/ ScoreAboveFourFifths(last)
                              \/ last.raw = "Miscellaneous")
    /\ last.op = "get_general_payment_method"
          => /\ last.raw \in {"TD Debit", "Cash"} => last.result = last.raw
             /\ last.raw = "Credit Card" => last.result = "Miscellaneous"
             /\ last.raw \in Keys(PAYMENT_EXAMPLES)
                   => (last.result = last.raw <=> ScoreAboveFourFifths(last))

\* C8 witness: "Food" scores 1 against the example "food" and returns "Food".
C8_Witness ==
    /\ last.op = "get_general_category_from_similarity"
    /\ last.raw = "Food"
    /\ last.best_score = <<8, 8>>
    /\ last.result = "Food"

\* C9: the matchers ignore case and surrounding white space: the result for a
\* raw label is the result for the lowercased, trimmed label, and "td debit",
\* "Td debit" and "TD debit" all give "TD Debit".
C9_CaseAndBlanksIgnored ==
    /\ last.op = "get_general_category_from_similarity"
          => last.result
                = SimilarityMatch(PyStrip(PyLower(last.raw)), CATEGORY_EXAMPLES).returned
    /\ last.op = "get_general_payment_method"
          => /\ last.result
                   = SimilarityMatch(PyStrip(PyLower(last.raw)), PAYMENT_EXAMPLES).returned
             /\ last.raw \in {"td debit", "Td debit", "TD debit"}
                   => last.result = "TD Debit"

\* C9 witness: an upper-case label with a blank on either side is matched.
C9_Witness ==
    /\ last.op = "get_general_payment_method"
    /\ last.raw = " TD DEBIT "
    /\ last.result = "TD Debit"

RECURSIVE AmountOfRows(_)
\* The amounts of the stored records with the given indices, added up.
AmountOfRows(rows) ==
    IF rows = {} THEN 0
    ELSE LET i == CHOOSE k \in rows : TRUE
         IN  store[i].amount + AmountOfRows(rows \ {i})

RECURSIVE SumOfGroups(_, _)
SumOfGroups(summary, labels) ==
    IF labels = {} THEN 0
    ELSE LET l == CHOOSE k \in labels : TRUE
         IN  summary[l] + SumOfGroups(summary, labels \ {l})

\* C10: the report's sum for a label is the sum of the amounts of the records
\* whose raw input normalized to that label, the group sums add up to the
\* total, and after ("lunch", 20, "td debit") and ("dinner", 25, "TD debit") the
\* summaries are exactly {Food: 45} and {TD Debit: 45}.
C10_ReportByCanonicalLabel ==
    (last.op = "generate_report" /\ ~last.returned.raised) =>
        LET report  == last.returned
            rows    == 1..Len(store)
            catOf(i) == get_general_category_from_similarity(calls[i].category)
            payOf(i) == get_general_payment_method(calls[i].payment_method)
        IN  /\ DOMAIN report.category_summary = {catOf(i) : i \in rows}
            /\ \A l \in DOMAIN report.category_summary :
                  report.category_summary[l] = AmountOfRows({i \in rows : catOf(i) = l})
            /\ DOMAIN report.payment_summary = {payOf(i) : i \in rows}
            /\ \A l \in DOMAIN report.payment_summary :
                  report.payment_summary[l] = AmountOfRows({i \in rows : payOf(i) = l})
            /\ report.total_expenses = AmountOfRows(rows)
            /\ SumOfGroups(report.category_summary, DOMAIN report.category_summary)
                  = report.total_expenses
            /\ SumOfGroups(report.payment_summary, DOMAIN report.payment_summary)
                  = report.total_expenses
            /\ ( /\ Len(store) = 2
                 /\ calls[1] = [category |-> "lunch", payment_method |-> "td debit"]
                 /\ store[1].amount = 20
                 /\ calls[2] = [category |-> "dinner", payment_method |-> "TD debit"]
                 /\ store[2].amount = 25 )
                  => /\ report.category_summary = ("Food" :> 45)
                     /\ report.payment_summary = ("TD Debit" :> 45)

\* C10 witness: the report after the two rows of the example.
C10_Witness ==
    /\ last.op = "generate_report"
    /\ Len(store) = 2
    /\ store[1].original_category = "lunch" /\ store[1].amount = 20
    /\ store[1].original_payment_method = "td debit"
    /\ store[2].original_category = "dinner" /\ store[2].amount = 25
    /\ store[2].original_payment_method = "TD debit"
    /\ last.returned.category_summary = ("Food" :> 45)
    /\ last.returned.payment_summary = ("TD Debit" :> 45)
    /\ last.returned.total_expenses = 45

\* The first pair in iteration order whose ratio no pair exceeds.
FirstOfTheBest(raw, examples) ==
    LET x == PyStrip(PyLower(raw))
        pairs == Pairs(examples)
        ratio(k) == Ratio(x, pairs[k].example)
        atMost(r, s) == r[1] * s[2] <= s[1] * r[2]
    IN  CHOOSE k \in 1..Len(pairs) :
            /\ \A j \in 1..Len(pairs) : atMost(ratio(j), ratio(k))
            /\ \A j \in 1..(k - 1) : ~atMost(ratio(k), ratio(j))

\* Two pairs of different labels share the highest ratio.
TiedAcrossLabels(raw, examples) ==
    LET x == PyStrip(PyLower(raw))
        pairs == Pairs(examples)
        k == FirstOfTheBest(raw, examples)
    IN  \E j \in 1..Len(pairs) :
            /\ pairs[j].general # pairs[k].general
            /\ Ratio(x, pairs[j].example)[1] * Ratio(x, pairs[k].example)[2]
                  = Ratio(x, pairs[k].example)[1] * Ratio(x, pairs[j].example)[2]

\* What the matcher keeps and returns when the first of the best pairs wins.
FirstSeenWins(raw, examples, m) ==
    LET pairs == Pairs(examples)
        k == FirstOfTheBest(raw, examples)
        top == Ratio(PyStrip(PyLower(raw)), pairs[k].example)
    IN  /\ m.best_score[1] * top[2] = top[1] * m.best_score[2]
        /\ top[1] > 0 => m.best_label = pairs[k].general
        /\ 5 * top[1] > 4 * top[2] => m.result = pairs[k].general

\* C11: when several pairs reach the same highest score, the matcher keeps
\* (and, above the threshold, returns) the label of the pair seen first in
\* iteration order: keys in definition order, then examples in list order; a
\* later pair replaces the best only with a strictly higher score.
C11_FirstSeenWinsTies ==
    /\ last.op = "get_general_category_from_similarity"
          => FirstSeenWins(last.raw, CATEGORY_EXAMPLES, last)
    /\ last.op = "get_general_payment_method"
          => FirstSeenWins(last.raw, PAYMENT_EXAMPLES, last)

\* C11 witness: "tdraink" scores 10/12 against "drink" (Food) and against
\* "train" (Transport), and "Food", seen first, is returned.
C11_Witness ==
    /\ last.op = "get_general_category_from_similarity"
    /\ last.raw = "tdraink"
    /\ TiedAcrossLabels(last.raw, CATEGORY_EXAMPLES)
    /\ last.best_score = <<10, 12>>
    /\ last.result = "Food"

\* ------------------------------------------------------------------------
\* The other readers of the collection: get_all_expenses, check_budget,
\* plot_category_pie and the entry points of ml_models.py
\* ------------------------------------------------------------------------

Digits == "0123456789"

IsDigit(c) == \E k \in 1..Len(Digits) : CharAt(Digits, k) = c

\* pd.to_datetime on a date of the store: the ISO form YYYY-MM-DD parses, a
\* text that holds no digit at all raises.
ParsesAsDate(date) ==
    /\ Len(date) = 10
    /\ \A k \in {1, 2, 3, 4, 6, 7, 9, 10} : IsDigit(CharAt(date, k))
    /\ CharAt(date, 5) = "-" /\ CharAt(date, 8) = "-"

\* pd.DataFrame(list(expenses.find(...))): no row gives a frame without columns
EmptyFrame(records) == Len(records) = 0

KeyError == [raised |-> TRUE, error |-> "KeyError"]

ValueError == [raised |-> TRUE, error |-> "ValueError"]

Returned(value) == [raised |-> FALSE, returned |-> value]

\* expenses.find() as a list
get_all_expenses(records) == Returned(records)

\* df["date"] is read (line 35) before len(df) is tested (line 37)
forecast_expenses(records) ==
    IF EmptyFrame(records) THEN KeyError
    ELSE IF \E k \in 1..Len(records) : ~ParsesAsDate(records[k].date) THEN ValueError
    ELSE IF Len(records) < 2 THEN Returned([frame |-> "empty"])
    ELSE Returned([frame |-> "forecast", rows |-> Len(records) + 30])

\* df["date"] is read (line 58) before len(df) is tested (line 62)
predict_expenses(records) ==
    IF EmptyFrame(records) THEN KeyError
    ELSE IF \E k \in 1..Len(records) : ~ParsesAsDate(records[k].date) THEN ValueError
    ELSE IF Len(records) < 2 THEN Returned([value |-> "0.0"])
    ELSE Returned([value |-> "prediction"])

\* len(df) is tested first (line 83)
detect_anomalies(records) ==
    IF Len(records) < 3 THEN Returned([frame |-> "empty"])
    ELSE Returned([frame |-> "anomalies"])

\* find({"category": category}): no matching record gives a frame without an
\* "amount" column
check_budget(records, category, budget_limit) ==
    LET rows == SelectWhere(records, "category", category)
    IN  IF EmptyFrame(rows) THEN KeyError
        ELSE LET total_spent == SumAmounts(rows, Len(rows))
             IN  Returned([total_spent |-> total_spent,
                           alert |-> total_spent > budget_limit])

\* df.groupby("category") on a frame without columns raises KeyError
plot_category_pie(records) ==
    IF EmptyFrame(records) THEN KeyError
    ELSE Returned([category_sums |-> GroupSums(records, "category")])

GetAllExpenses ==
    /\ last' = [op |-> "get_all_expenses", result |-> get_all_expenses(store)]
    /\ UNCHANGED <<store, calls, catClf, payClf>>

Forecast ==
    /\ last' = [op |-> "forecast_expenses", size |-> Len(store),
                result |-> forecast_expenses(store)]
    /\ UNCHANGED <<store, calls, catClf, payClf>>

Predict ==
    /\ last' = [op |-> "predict_expenses", size |-> Len(store),
                result |-> predict_expenses(store)]
    /\ UNCHANGED <<store, calls, catClf, payClf>>

Anomalies ==
    /\ last' = [op |-> "detect_anomalies", size |-> Len(store),
                result |-> detect_anomalies(store)]
    /\ UNCHANGED <<store, calls, catClf, payClf>>

CheckBudget(category, budget_limit) ==
    /\ last' = [op |-> "check_budget",
                result |-> check_budget(store, category, budget_limit)]
    /\ UNCHANGED <<store, calls, catClf, payClf>>

PlotCategoryPie ==
    /\ last' = [op |-> "plot_category_pie", result |-> plot_category_pie(store)]
    /\ UNCHANGED <<store, calls, catClf, payClf>>

\* get_general_category_from_similarity(category), called on its own
CategoryMatcherCall(category) ==
    /\ last' = [op |-> "get_general_category_from_similarity", raw |-> category,
                result |-> get_general_category_from_similarity(category)]
    /\ UNCHANGED <<store, calls, catClf, payClf>>

\* get_general_payment_method(payment_method), called on its own
PaymentMatcherCall(payment_method) ==
    /\ last' = [op |-> "get_general_payment_method", raw |-> payment_method,
                result |-> get_general_payment_method(payment_method)]
    /\ UNCHANGED <<store, calls, catClf, payClf>>

\* Every function that opens the collection, called in any order.  Dates: the
\* one of the tests, and a text that is no date (the form checks no date).
OpsDates == {"2025-05-23", "soon"}

OpsLabels == {<<"lunch", "td debit">>, <<"xyz123", "Card">>}

OpsBudgets == {30}

NextOps ==
    \/ /\ Len(store) < MaxStore
       /\ \E date \in OpsDates, amount \in {20}, labels \in OpsLabels,
             description \in PipelineDescriptions :
             AddExpense(date, amount, labels[1], description, labels[2],
                        None, None, None, None)
    \/ TrainCategory
    \/ TrainPayment
    \/ \E model \in Passed(catClf.model), vectorizer \in Passed(catClf.vectorizer) :
          RefineCategory("", "xyz123", model, vectorizer)
    \/ \E model \in Passed(payClf.model), vectorizer \in Passed(payClf.vectorizer) :
          RefinePayment("", "Card", model, vectorizer)
    \/ \E labels \in OpsLabels : CategoryMatcherCall(labels[1])
    \/ \E labels \in OpsLabels : PaymentMatcherCall(labels[2])
    \/ GetAllExpenses
    \/ Report
    \/ PlotCategoryPie
    \/ \E category \in CategoryLabels, budget_limit \in OpsBudgets :
          CheckBudget(category, budget_limit)
    \/ Forecast
    \/ Predict
    \/ Anomalies

SpecOps == Init /\ [][NextOps]_vars

\* C12: the store is modified by add_expense_db only: a completed call
\* appends exactly one record and leaves the records before it as they were;
\* the matchers, the trainers, the pipeline, get_all_expenses, generate_report
\* and check_budget leave the store as it was.
C12_OnlyAddExpenseWrites ==
    [][ /\ last'.op = "add_expense_db"
           => /\ Len(store') = Len(store) + 1
              /\ SubSeq(store', 1, Len(store)) = store
        /\ last'.op # "add_expense_db" => store' = store ]_vars

\* C12 witness: two records were added, a classifier was trained on them and
\* check_budget has summed a category of the store.
C12_Witness ==
    /\ Len(store) = 2
    /\ store[1].date # store[2].date
    /\ catClf # Untrained
    /\ last.op = "check_budget"
    /\ ~last.result.raised

\* C13 (as claimed): with fewer than 2 records (0 or 1) forecast_expenses
\* returns an empty frame and predict_expenses returns 0.0, with fewer than 3
\* detect_anomalies returns an empty frame, and none of them raises.
C13_SmallStoresAreGuarded ==
    /\ (last.op = "forecast_expenses" /\ last.size < 2)
          => ~last.result.raised /\ last.result.returned = [frame |-> "empty"]
    /\ (last.op = "predict_expenses" /\ last.size < 2)
          => ~last.result.raised /\ last.result.returned = [value |-> "0.0"]
    /\ (last.op = "detect_anomalies" /\ last.size < 3)
          => ~last.result.raised /\ last.result.returned = [frame |-> "empty"]

\* ------------------------------------------------------------------------
\* The form (gui.py) and the menu (main.py)
\* ------------------------------------------------------------------------

AllDigits(w) == \A k \in 1..Len(w) : IsDigit(CharAt(w, k))

IsDigitString(w) == Len(w) > 0 /\ AllDigits(w)

\* a leading sign removed
Unsigned(w) ==
    IF Len(w) > 0 /\ CharAt(w, 1) \in {"+", "-"} THEN SubSeq(w, 2, Len(w)) ELSE w

\* digits with at most one point and at least one digit
IsDecimal(w) ==
    \/ IsDigitString(w)
    \/ \E k \in 1..Len(w) :
          /\ CharAt(w, k) = "."
          /\ Len(w) > 1
          /\ AllDigits(SubSeq(w, 1, k - 1))
          /\ AllDigits(SubSeq(w, k + 1, Len(w)))

\* a decimal, or a decimal with an exponent
IsFloatLiteral(w) ==
    \/ IsDecimal(w)
    \/ \E k \in 1..Len(w) :
          /\ CharAt(w, k) = "e"
          /\ IsDecimal(SubSeq(w, 1, k - 1))
          /\ IsDigitString(Unsigned(SubSeq(w, k + 1, Len(w))))

\* the literals float() accepts beside the numerals, in any case
SpecialFloats == {"nan", "inf", "infinity"}

RECURSIVE DigitsValue(_)
DigitsValue(w) ==
    IF Len(w) = 0 THEN 0
    ELSE 10 * DigitsValue(SubSeq(w, 1, Len(w) - 1))
         + (CHOOSE d \in 0..9 : CharAt(Digits, d + 1) = CharAt(w, Len(w)))

\* float(text): white space around the text and case are ignored; a whole
\* number is kept as that number, any other accepted literal as the float it
\* names; anything else raises ValueError.  (Underscores between digits, which
\* float() also accepts, are not modelled.)
PyFloat(text) ==
    LET s == PyStrip(PyLower(text))
        u == Unsigned(s)
    IN  IF IsDigitString(u)
        THEN [raised |-> FALSE,
              value |-> IF CharAt(s, 1) = "-" THEN 0 - DigitsValue(u) ELSE DigitsValue(u)]
        ELSE IF IsFloatLiteral(u) \/ u \in SpecialFloats
        THEN [raised |-> FALSE, value |-> [float |-> s]]
        ELSE ValueError

\* add_expense_db(date, amount, category, description, payment_method) with
\* the four optional arguments left at None: the collection after the call
add_expense_db(records, date, amount, category, description, payment_method) ==
    Append(records,
           ExpenseDocument(date, amount, category, description, payment_method,
               RefineForStore(get_general_category_from_similarity(category),
                              None, None, None).result,
               RefineForStore(get_general_payment_method(payment_method),
                              None, None, None).result))

\* `not date or not amount or not category or not desc or not payment`
AnyFieldEmpty(fields) ==
    \/ fields.date = "" \/ fields.amount = "" \/ fields.category = ""
    \/ fields.desc = "" \/ fields.payment = ""

\* create_gui(): the window is shown and mainloop() waits
CreateGui ==
    /\ last' = [op |-> "create_gui", window |-> "open", dialog |-> "none"]
    /\ UNCHANGED <<store, calls, catClf, payClf>>

WindowOpen ==
    /\ last.op \in {"create_gui", "submit"}
    /\ last.window = "open"

\* submit(), the command of the button, on the texts of the five entries
Submit(date, amount, category, desc, payment) ==
    LET fields == [date |-> date, amount |-> amount, category |-> category,
                   desc |-> desc, payment |-> payment]
        number == PyFloat(amount)
    IN  /\ WindowOpen
        /\ IF AnyFieldEmpty(fields)
           THEN /\ last' = [op |-> "submit", fields |-> fields, window |-> "open",
                            dialog |-> "Please fill in all fields."]
                /\ UNCHANGED <<store, calls>>
           ELSE IF number.raised
           THEN /\ last' = [op |-> "submit", fields |-> fields, window |-> "open",
                            dialog |-> "Amount must be a number."]
                /\ UNCHANGED <<store, calls>>
           ELSE /\ store' = add_expense_db(store, date, number.value, category, desc, payment)
                /\ calls' = Append(calls, [category |-> category, payment_method |-> payment])
                /\ last' = [op |-> "submit", fields |-> fields, window |-> "closed",
                            dialog |-> "Expense added successfully!"]
        /\ UNCHANGED <<catClf, payClf>>

\* The user closes the window; mainloop() returns.
CloseWindow ==
    /\ WindowOpen
    /\ last' = [op |-> "close_window", window |-> "closed", dialog |-> "none"]
    /\ UNCHANGED <<store, calls, catClf, payClf>>

\* The texts typed into the form: each field filled or left empty, an amount
\* that is a numeral, one that is no float literal, and the literal "nan".
GuiDates == {"2025-05-23", ""}

GuiAmounts == {"20", "abc", "nan", ""}

GuiCategories == {"lunch", "xyz123", ""}

GuiDescriptions == {"Lunch at cafe", ""}

GuiPayments == {"td debit", ""}

\* gui.py run as a program, again and again
NextGui ==
    \/ /\ ~WindowOpen
       /\ CreateGui
    \/ /\ Len(store) < MaxStore
       /\ \E date \in GuiDates, amount \in GuiAmounts, category \in GuiCategories,
             desc \in GuiDescriptions, payment \in GuiPayments :
             Submit(date, amount, category, desc, payment)
    \/ CloseWindow

SpecGui == Init /\ [][NextGui]_vars

\* Where main() is: at the prompt, inside create_gui(), left by `break`, or
\* left by an exception no handler catches.
MainAt ==
    IF last.op = "main" THEN last.control
    ELSE IF WindowOpen THEN "create_gui"
    ELSE "menu"

\* control after a call made from the loop: back to the prompt, or out of
\* main() with the exception
After(result) == IF result.raised THEN "raised" ELSE "menu"

\* One turn of the loop for every input but "7" (lines 38-62).
MainChoice(choice) ==
    /\ MainAt = "menu"
    /\ CASE choice = "1" -> CreateGui
         [] choice = "2" ->
              /\ last' = [op |-> "main", choice |-> choice,
                          control |-> After(GenerateReport(store))]
              /\ UNCHANGED <<store, calls, catClf, payClf>>
         [] choice = "3" ->
              /\ last' = [op |-> "main", choice |-> choice,
                          control |-> After(plot_category_pie(store))]
              /\ UNCHANGED <<store, calls, catClf, payClf>>
         [] choice = "4" ->
              /\ last' = [op |-> "main", choice |-> choice,
                          control |-> After(forecast_expenses(store))]
              /\ UNCHANGED <<store, calls, catClf, payClf>>
         [] choice = "5" ->
              /\ last' = [op |-> "main", choice |-> choice,
                          control |-> After(predict_expenses(store))]
              /\ UNCHANGED <<store, calls, catClf, payClf>>
         [] choice = "6" ->
              /\ last' = [op |-> "main", choice |-> choice,
                          control |-> After(detect_anomalies(store))]
              /\ UNCHANGED <<store, calls, catClf, payClf>>
         [] choice = "8" ->
              /\ last' = [op |-> "main", choice |-> choice, control |-> "exited"]
              /\ UNCHANGED <<store, calls, catClf, payClf>>
         [] OTHER ->
              /\ last' = [op |-> "main", choice |-> choice, control |-> "menu"]
              /\ UNCHANGED <<store, calls, catClf, payClf>>

\* The turn of the loop for "7" (lines 55-58): two more inputs are read.
MainBudget(category, budget) ==
    LET limit == PyFloat(budget)
    IN  /\ MainAt = "menu"
        /\ last' = [op |-> "main", choice |-> "7",
                    control |-> IF limit.raised THEN "raised"
                                ELSE After(check_budget(store, category, limit.value))]
        /\ UNCHANGED <<store, calls, catClf, payClf>>

\* What is typed at the prompts of main().
MenuInputs == {"1", "2", "3", "4", "5", "6", "8", "9", "", "exit"}

BudgetCategories == {"Food", "Transport"}

BudgetInputs == {"30", "abc"}

MainDates == {"2025-05-23", "soon"}

MainAmounts == {"20", "abc"}

MainCategories == {"lunch", "xyz123"}

NextMain ==
    \/ \E choice \in MenuInputs : MainChoice(choice)
    \/ \E category \in BudgetCategories, budget \in BudgetInputs :
          MainBudget(category, budget)
    \/ /\ Len(store) < MaxRows
       /\ \E date \in MainDates, amount \in MainAmounts, category \in MainCategories :
             Submit(date, amount, category, "Lunch at cafe", "td debit")
    \/ CloseWindow

SpecMain == Init /\ [][NextMain]_vars

Choices == {"1", "2", "3", "4", "5", "6", "7", "8"}

\* C14 (as claimed): the loop of main() ends only on the input "8": after any
\* other input, valid or not, and whatever the store holds, control is back at
\* the prompt (or in the form, for "1"); an invalid choice leaves the store as
\* it was.
C14_LoopEndsOnlyOnEight ==
    /\ [](MainAt \in {"menu", "create_gui", "exited"})
    /\ [](MainAt = "exited" => last.choice = "8")
    /\ [][(last'.op = "main" /\ last'.choice \notin Choices)
             => (store' = store /\ MainAt' = "menu")]_vars

\* a numeral, with or without a point or an exponent
DenotesNumber(text) == IsFloatLiteral(Unsigned(PyStrip(PyLower(text))))

\* C15 (as claimed): a submit with an empty field or with an amount that is
\* not a number shows an error, inserts nothing and leaves the window open;
\* any other submit inserts exactly one record and closes the window.
C15_RejectedSubmitStoresNothing ==
    [][last'.op = "submit" =>
          IF AnyFieldEmpty(last'.fields) \/ ~DenotesNumber(last'.fields.amount)
          THEN /\ last'.dialog \in {"Please fill in all fields.", "Amount must be a number."}
               /\ store' = store
               /\ last'.window = "open"
          ELSE /\ Len(store') = Len(store) + 1
               /\ SubSeq(store', 1, Len(store)) = store
               /\ last'.window = "closed"]_vars

\* C16: every record added through the form carries exactly the matchers'
\* results, no classifier having been trained or consulted: a raw label
\* without a match is stored as "Miscellaneous", whatever the description and
\* however many labelled records there are.
C16_FormUsesMatchersOnly ==
    /\ catClf = Untrained /\ payClf = Untrained
    /\ Len(calls) = Len(store)
    /\ \A i \in 1..Len(store) :
          /\ store[i].category = CategoryTable[calls[i].category].returned
          /\ store[i].payment_method = PaymentTable[calls[i].payment_method].returned
          /\ ~ScoreAboveFourFifths(CategoryTable[calls[i].category])
                => store[i].category = "Miscellaneous"
          /\ ~ScoreAboveFourFifths(PaymentTable[calls[i].payment_method])
                => store[i].payment_method = "Miscellaneous"

\* C16 witness: two records labelled "Food" are stored, enough to train a
\* classifier, and the form has just stored "xyz123" as "Miscellaneous".
C16_Witness ==
    /\ last.op = "submit" /\ last.window = "closed"
    /\ Len(store) = 3
    /\ store[1].category = "Food" /\ store[2].category = "Food"
    /\ store[3].original_category = "xyz123"
    /\ store[3].description = "Lunch at cafe"
    /\ store[3].category = "Miscellaneous"
====
